---- MODULE Spec2Model ----
(***************************************************************************)
(* The two loggers of the repository: isp2/innovate2cvs.py, which reads    *)
(* ISP2 packets from a serial line through isp2/isp2_serial.py and         *)
(* isp2/packet.py, and MAX31855/max2csv.py, which reads thermocouples.     *)
(* Both run the same loop: two averaging windows (primary and short       *)
(* interval), each flushed to a date-named file with a header line.        *)
(*                                                                         *)
(* Time is counted in ticks; a calendar day is DayLen ticks.  Values are   *)
(* integers (the thermocouple readings are floats in the code; here they   *)
(* are exact).  A line of a file is a sequence of tokens <<kind, n>>, the  *)
(* separator and other whitespace being tokens of their own.               *)
(***************************************************************************)
EXTENDS Integers, Sequences, FiniteSets, TLC

VARIABLES run,    \* the logger: configuration, main()'s locals, the files
          solo,   \* the same logger on the same inputs without short interval logging
          rx,     \* bytes the serial line will deliver, in order
          clock,  \* the latest value datetime.now() returned to the loop (NoTime: none yet)
          event,  \* what the latest loop iteration read
          pkt,    \* an InnovatePacket object used on its own
          call    \* the latest call on pkt and what it returned or raised

vars == <<run, solo, rx, clock, event, pkt, call>>

----------------------------------------------------------------------------
(* Bounds of the model *)

MaxTime == 6        \* the last tick at which an observation is taken
DayLen == 4         \* ticks per calendar day
MaxGarbage == 2     \* bytes of line noise in front of the first frame
MaxWords == 2       \* the longest packet whose data is assigned to pkt


Min(a, b) == IF a < b THEN a ELSE b

----------------------------------------------------------------------------
(* isp2/packet.py *)

RECURSIVE BitAnd(_, _)
BitAnd(a, b) ==
    IF a = 0 \/ b = 0 THEN 0
    ELSE (a % 2) * (b % 2) + 2 * BitAnd(a \div 2, b \div 2)

START_MARKER_MASK == 32768                 \* 0b1000000000000000
HEADER_MASK == 32768 + 8832                \* START_MARKER_MASK | 0b0010001010000000
SENSOR_DATA_MASK == 4096                   \* 0b0001000000000000
AUX_CHANNEL_LOW_MASK == 49280              \* 0b1100000010000000

\* What a call returns or raises.  value is a sequence: <<>> stands for None
\* and for the empty tuple (both are false in a condition), <<w1, ...>> for
\* the words, <<h>> for a header word.
Return(v) == [raised |-> FALSE, error |-> "", value |-> v]
Raise(e) == [raised |-> TRUE, error |-> e, value |-> <<>>]

\* struct.unpack(">%dH" % (len/2), bytestring): big endian 16 bit words; a
\* byte string of odd length does not have the size the format asks for.
_to_words(bytestring) ==
    IF Len(bytestring) % 2 # 0 THEN Raise("struct.error")
    ELSE Return([i \in 1..(Len(bytestring) \div 2) |->
                    bytestring[2 * i - 1] * 256 + bytestring[2 * i]])

\* The header setter accepting a word that has some bit of the mask set.
header_setter_any_bit(bytestring) ==
    LET w == _to_words(bytestring) IN
    IF w.raised THEN w
    ELSE IF w.value # <<>>
         THEN IF Len(w.value) # 1
              THEN Raise("Header must be exactly one word long.")
              ELSE IF BitAnd(w.value[1], HEADER_MASK) = 0
                   THEN Raise("Invalid header")
                   ELSE Return(<<w.value[1]>>)
         ELSE Return(<<>>)

\* The header setter.
header_setter(bytestring) ==
    LET w == _to_words(bytestring) IN
    IF w.raised THEN w
    ELSE IF w.value # <<>>
         THEN IF Len(w.value) # 1
              THEN Raise("Header must be exactly one word long.")
              ELSE IF BitAnd(w.value[1], HEADER_MASK) # HEADER_MASK
                   THEN Raise("Invalid header")
                   ELSE Return(<<w.value[1]>>)
         ELSE Return(<<>>)

\* "if self._header:" holds for a header word other than 0.
HasHeader(_header) == _header # <<>> /\ _header[1] # 0

\* The packet_length property: <<>> is None (no header).
packet_length(_header) ==
    IF HasHeader(_header)
    THEN <<BitAnd(_header[1], 127)
           + (IF BitAnd(_header[1], 256) # 0 THEN 128 ELSE 0)>>
    ELSE <<>>

\* The is_sensor_data property (None, which is false, without a header).
is_sensor_data(_header) ==
    HasHeader(_header) /\ BitAnd(_header[1], SENSOR_DATA_MASK) = SENSOR_DATA_MASK

\* The data setter.  isNone: the argument is None (as in __init__), else
\* bytestring is the argument.  len(None) is a TypeError.
data_setter(_header, isNone, bytestring) ==
    LET w == IF isNone THEN Return(<<>>) ELSE _to_words(bytestring)
        n == packet_length(_header)
    IN  IF w.raised THEN w
        ELSE IF w.value = <<>> /\ n # <<>> /\ n[1] # 0
             THEN Raise("No data in packet")
             ELSE IF HasHeader(_header)
                  THEN IF isNone THEN Raise("TypeError")
                       ELSE IF Len(w.value) # n[1]
                            THEN Raise("Packet length does not match specification from header")
                            ELSE w
                  ELSE w

\* InnovatePacket(header): __init__ assigns self.header = header and then
\* self.data = None, both through the setters.
InnovatePacket(header) ==
    LET h == header_setter(header) IN
    IF h.raised THEN h
    ELSE LET d == data_setter(h.value, TRUE, <<>>) IN
         IF d.raised THEN d ELSE h

\* aux_word2aux_channel without the shift of the high bits.
aux_word2aux_channel_no_shift(word) ==
    IF BitAnd(word, AUX_CHANNEL_LOW_MASK) # 0
    THEN Raise("Not an aux channel word")
    ELSE Return(<<BitAnd(word, 127) + BitAnd(word, 16128)>>)

\* aux_word2aux_channel taking bits 13-8 as a field shifted left by one.
aux_word2aux_channel_shift_left(word) ==
    IF BitAnd(word, AUX_CHANNEL_LOW_MASK) # 0
    THEN Raise("Not an aux channel word")
    ELSE Return(<<BitAnd(word, 127) + ((BitAnd(word, 16128) \div 256) * 2)>>)

aux_word2aux_channel(word) ==
    IF BitAnd(word, AUX_CHANNEL_LOW_MASK) # 0
    THEN Raise("Not an aux channel word")
    ELSE Return(<<BitAnd(word, 127) + (BitAnd(word, 16128) \div 2)>>)

----------------------------------------------------------------------------
(* innovate/packet.py, the other InnovatePacket of the repository *)

\* The header setter: no test for None, whose len() is a TypeError.
innovate_header_setter(isNone, bytestring) ==
    LET w == _to_words(bytestring) IN
    IF isNone THEN Raise("TypeError")
    ELSE IF w.raised THEN w
    ELSE IF Len(w.value) # 1
         THEN Raise("Header must be exactly one word long.")
         ELSE IF BitAnd(w.value[1], HEADER_MASK) # HEADER_MASK
              THEN Raise("Invalid header")
              ELSE Return(<<w.value[1]>>)

\* The packet_length property: "self._header[0]" subscripts the header
\* word, an int, which is a TypeError.
innovate_packet_length(_header) ==
    IF ~HasHeader(_header) THEN Return(<<>>) ELSE Raise("TypeError")

\* The data setter: no check at all.
innovate_data_setter(isNone, bytestring) ==
    IF isNone THEN Return(<<>>) ELSE _to_words(bytestring)

\* InnovatePacket(header): self.header = header, then self.data = None.
innovate_InnovatePacket(isNone, header) ==
    LET h == innovate_header_setter(isNone, header) IN
    IF h.raised THEN h
    ELSE LET d == innovate_data_setter(TRUE, <<>>) IN
         IF d.raised THEN d ELSE h

----------------------------------------------------------------------------
(* isp2/isp2_serial.py *)

\* serial.Serial.read(size): the next size bytes, or those the line delivers
\* before the timeout when there are fewer.
SerialRead(line, size) ==
    [bytes |-> SubSeq(line, 1, Min(size, Len(line))),
     rest |-> SubSeq(line, Min(size, Len(line)) + 1, Len(line))]

\* Isp2Serial.read_packet.  The result has the header word, the data words
\* and what is left on the line; hdr and payload are the bytes the two reads
\* returned.
read_packet(line) ==
    LET r1 == SerialRead(line, 2)
        p == InnovatePacket(r1.bytes)
        none == [raised |-> TRUE, error |-> "", header |-> <<>>, data |-> <<>>,
                 rest |-> r1.rest, hdr |-> r1.bytes, payload |-> <<>>]
    IN  IF p.raised THEN [none EXCEPT !.error = p.error]
        ELSE LET n == packet_length(p.value) IN
             IF n = <<>> THEN [none EXCEPT !.error = "TypeError"]
             ELSE LET r2 == SerialRead(r1.rest, n[1] * 2)
                      d == data_setter(p.value, FALSE, r2.bytes)
                  IN  IF d.raised
                      THEN [none EXCEPT !.error = d.error, !.rest = r2.rest,
                                        !.payload = r2.bytes]
                      ELSE [raised |-> FALSE, error |-> "", header |-> p.value,
                            data |-> d.value, rest |-> r2.rest,
                            hdr |-> r1.bytes, payload |-> r2.bytes]

----------------------------------------------------------------------------
(* Lines and files *)

\* Tokens of a line.
Tok(kind, n) == <<kind, n>>
output_separator == Tok("tab", 0)           \* the default separator '\t'
Whitespace == {Tok("tab", 0), Tok("space", 0)}

\* sep.join(items)
RECURSIVE Join(_, _)
Join(items, sep) ==
    IF items = <<>> THEN <<>>
    ELSE IF Len(items) = 1 THEN <<items[1]>>
    ELSE <<items[1], sep>> \o Join(Tail(items), sep)

\* str.strip(): without the leading and trailing whitespace (the line
\* terminator, which a stored line does not carry, included).
RECURSIVE LStrip(_)
LStrip(line) ==
    IF line # <<>> /\ Head(line) \in Whitespace THEN LStrip(Tail(line)) ELSE line

RECURSIVE RStrip(_)
RStrip(line) ==
    IF line # <<>> /\ line[Len(line)] \in Whitespace
    THEN RStrip(SubSeq(line, 1, Len(line) - 1)) ELSE line

Strip(line) == RStrip(LStrip(line))

Date(t) == t \div DayLen                    \* datetime.date()
TimeOfDay(t) == t % DayLen                  \* strftime('%H:%M:%S')

\* A file name; date -1 is a name that is not derived from a date.
NoName == [date |-> -1, suffix |-> ""]
\* A file object: its state, its name and the header line it was opened with.
NoFile == [state |-> "none", name |-> NoName, header_line |-> <<>>]   \* None
NoTime == -1                                       \* the variable is None

get_output_filename(current_date, short_interval_file) ==
    IF short_interval_file
    THEN [date |-> current_date, suffix |-> "short_interval.tsv"]
    ELSE [date |-> current_date, suffix |-> "tc4.tsv"]

Absent == [exists |-> FALSE, lines |-> <<>>]

\* get_output_file with the header check lost: a file whose first line is
\* not the header is truncated like an empty one.
get_output_file_overwrites(fs, filename, keys, sep) ==
    LET header_line == Join(keys, sep) IN
    IF fs[filename].exists /\ fs[filename].lines # <<>>
       /\ Strip(fs[filename].lines[1]) = header_line
    THEN [exit |-> FALSE, fs |-> fs,
          f |-> [state |-> "open", name |-> filename, header_line |-> header_line]]
    ELSE [exit |-> FALSE,
          fs |-> [fs EXCEPT ![filename] = [exists |-> TRUE, lines |-> <<header_line>>]],
          f |-> [state |-> "open", name |-> filename, header_line |-> header_line]]

\* get_output_file opening a file whose header matches in mode 'w' instead
\* of 'a': the file is truncated and the header written again.
get_output_file_truncates(fs, filename, keys, sep) ==
    LET header_line == Join(keys, sep) IN
    IF fs[filename].exists /\ fs[filename].lines # <<>>
       /\ Strip(fs[filename].lines[1]) # header_line
    THEN [exit |-> TRUE, fs |-> fs, f |-> NoFile]
    ELSE [exit |-> FALSE,
          fs |-> [fs EXCEPT ![filename] = [exists |-> TRUE, lines |-> <<header_line>>]],
          f |-> [state |-> "open", name |-> filename, header_line |-> header_line]]

\* get_output_file creating a file without writing the header line.
get_output_file_no_header(fs, filename, keys, sep) ==
    LET header_line == Join(keys, sep) IN
    IF fs[filename].exists /\ fs[filename].lines # <<>>
    THEN IF Strip(fs[filename].lines[1]) = header_line
         THEN [exit |-> FALSE, fs |-> fs,
               f |-> [state |-> "open", name |-> filename, header_line |-> header_line]]
         ELSE [exit |-> TRUE, fs |-> fs, f |-> NoFile]
    ELSE [exit |-> FALSE,
          fs |-> [fs EXCEPT ![filename] = [exists |-> TRUE, lines |-> <<>>]],
          f |-> [state |-> "open", name |-> filename, header_line |-> header_line]]

\* get_output_file comparing the first line as it is, without strip().
get_output_file_verbatim(fs, filename, keys, sep) ==
    LET header_line == Join(keys, sep) IN
    IF fs[filename].exists /\ fs[filename].lines # <<>>
    THEN IF fs[filename].lines[1] = header_line
         THEN [exit |-> FALSE, fs |-> fs,
               f |-> [state |-> "open", name |-> filename, header_line |-> header_line]]
         ELSE [exit |-> TRUE, fs |-> fs, f |-> NoFile]
    ELSE [exit |-> FALSE,
          fs |-> [fs EXCEPT ![filename] = [exists |-> TRUE, lines |-> <<header_line>>]],
          f |-> [state |-> "open", name |-> filename, header_line |-> header_line]]

\* get_output_file(filename, data_dict, sep): the files afterwards and the
\* handle, or exit when sys.exit(1) is called.
get_output_file(fs, filename, keys, sep) ==
    LET header_line == Join(keys, sep) IN
    IF fs[filename].exists /\ fs[filename].lines # <<>>
    THEN IF Strip(fs[filename].lines[1]) = header_line
         THEN [exit |-> FALSE, fs |-> fs,
               f |-> [state |-> "open", name |-> filename, header_line |-> header_line]]
         ELSE [exit |-> TRUE, fs |-> fs, f |-> NoFile]
    ELSE [exit |-> FALSE,
          fs |-> [fs EXCEPT ![filename] = [exists |-> TRUE, lines |-> <<header_line>>]],
          f |-> [state |-> "open", name |-> filename, header_line |-> header_line]]

----------------------------------------------------------------------------
(* main() of isp2/innovate2cvs.py and of MAX31855/max2csv.py *)

interval == 2               \* the primary interval, in ticks
short_interval == 1         \* the short interval, in ticks
NumSensors == 2             \* len(CS), the thermocouples of max2csv.py

\* 'chan %i' in innovate2cvs.py, 'sensor %i' in max2csv.py
ChannelKey(program, i) ==
    IF program = "innovate2cvs" THEN Tok("chan", i) ELSE Tok("sensor", i)

\* The keys of data_dict for n averaged channels.
Keys(program, n) ==
    <<Tok("timestamp", 0), Tok("hours", 0)>> \o [i \in 1..n |-> ChannelKey(program, i)]

\* The values of data_dict with the start of the file as the timestamp.
Values_file_start(fmt, start_time, start_of_file, averaged) ==
    <<Tok("hms", TimeOfDay(start_of_file)), Tok(fmt, start_time - start_of_file)>>
    \o [i \in 1..Len(averaged) |-> Tok("num", averaged[i])]

\* The values of data_dict: the start of the interval as '%H:%M:%S', the
\* hours since the start of the file in the given format, str() of each
\* average.
Values(fmt, start_time, start_of_file, averaged) ==
    <<Tok("hms", TimeOfDay(start_time)), Tok(fmt, start_time - start_of_file)>>
    \o [i \in 1..Len(averaged) |-> Tok("num", averaged[i])]

\* The update zipping the averages with a shorter list: one channel is left.
UpdateAverage_one_channel(averaged, aux_data, n) ==
    [i \in 1..Min(1, Min(Len(averaged), Len(aux_data))) |->
        averaged[i] + ((aux_data[i] - averaged[i]) \div n)]

\* [avg + (new - avg)/n for avg, new in zip(averaged, aux_data)]
UpdateAverage(averaged, aux_data, n) ==
    [i \in 1..Min(Len(averaged), Len(aux_data)) |->
        averaged[i] + ((aux_data[i] - averaged[i]) \div n)]

\* An exception nobody catches ("exception"), or sys.exit(1) ("exit").
Crash(s, status, error) == [s EXCEPT !.status = status, !.error = error]

\* "if not file_start_time: file_start_time = now" and the three like it.
StartTimes(s, now) ==
    [s EXCEPT !.file_start_time = IF @ = NoTime THEN now ELSE @,
              !.short_file_start_time = IF @ = NoTime THEN now ELSE @,
              !.interval_start_time = IF @ = NoTime THEN now ELSE @,
              !.short_interval_start_time = IF @ = NoTime THEN now ELSE @]

\* The test with ">=" for ">".
IntervalOver_at_width(now, start_time, width) == now - start_time >= width

\* "if now - interval_start_time > interval:"
IntervalOver(now, start_time, width) == now - start_time > width

\* The next interval laid on a grid of the width from the old start.
NextIntervalStart_on_grid(now, start_time, width) == start_time + width

\* "interval_start_time = now" after a row is written.
NextIntervalStart(now, start_time, width) == now

\* The record of a call of get_output_file: the window, the time of the
\* observation, the file, what it held before the call and the expected
\* header line.
Opening(s, window, now, filename, keys) ==
    [s EXCEPT !.opens = Append(@, [window |-> window, at |-> now, file |-> filename,
                                   before |-> s.fs[filename],
                                   header_line |-> Join(keys, output_separator)])]

\* The primary interval: "if now - interval_start_time > interval: ... else: ...".
\* reread is the value of the second datetime.now(), read when a file is opened.
PrimaryInterval(s, now, aux_data, reread) ==
    IF IntervalOver(now, s.interval_start_time, interval)
    THEN LET keys == Keys(s.program, Len(s.averaged_data))
             row == Join(Values("f3", s.interval_start_time, s.file_start_time,
                                s.averaged_data), output_separator)
             reopen == s.output_file.state = "none" \/ Date(now) # s.current_date
             closed == [s EXCEPT !.output_file.state =
                                     IF @ = "none" THEN @ ELSE "closed",
                                 !.current_date = Date(reread)]
             name == get_output_filename(Date(reread), FALSE)
             o == get_output_file(s.fs, name, keys, output_separator)
             opened == IF ~reopen THEN s
                       ELSE IF s.output_file_name # ""
                            THEN Crash(closed, "exception", "TypeError")
                            ELSE IF o.exit
                                 THEN Crash(Opening(closed, "primary", now, name, keys),
                                            "exit", "unexpected header line")
                                 ELSE [Opening(closed, "primary", now, name, keys)
                                         EXCEPT !.fs = o.fs, !.output_file = o.f]
         IN  IF opened.status # "running" THEN opened
             ELSE [opened EXCEPT
                     !.fs[opened.output_file.name].lines = Append(@, row),
                     !.written = Append(@, [window |-> "primary",
                                            file |-> opened.output_file.name,
                                            start |-> s.interval_start_time,
                                            at |-> now,
                                            header_line |-> opened.output_file.header_line,
                                            row |-> row,
                                            samples |-> s.samples]),
                     !.interval_start_time =
                         NextIntervalStart(now, s.interval_start_time, interval),
                     !.averaged_data = aux_data,
                     !.n_in_average = 1,
                     !.samples = <<aux_data>>]
    ELSE IF s.averaged_data = <<>>
         THEN [s EXCEPT !.averaged_data = aux_data,
                        !.n_in_average = 1,
                        !.samples = Append(@, aux_data)]
         ELSE IF s.n_in_average = 0
              THEN Crash(s, "exception", "NameError")
              ELSE [s EXCEPT !.averaged_data =
                                 UpdateAverage(@, aux_data, s.n_in_average),
                             !.samples = Append(@, aux_data)]

\* The short interval: the same code on the short interval's variables, but
\* for the two names of the counter.
ShortInterval(s, now, aux_data, reread) ==
    IF IntervalOver(now, s.short_interval_start_time, short_interval)
    THEN LET keys == Keys(s.program, Len(s.short_interval_averaged_data))
             row == Join(Values("f4", s.short_interval_start_time,
                                s.short_file_start_time,
                                s.short_interval_averaged_data), output_separator)
             reopen == s.short_output_file.state = "none"
                       \/ Date(now) # s.current_date
             closed == [s EXCEPT !.short_output_file.state =
                                     IF @ = "none" THEN @ ELSE "closed",
                                 !.current_date = Date(reread)]
             name == get_output_filename(Date(reread), TRUE)
             o == get_output_file(s.fs, name, keys, output_separator)
             opened == IF ~reopen THEN s
                       ELSE IF s.short_output_file_name # ""
                            THEN Crash(closed, "exception", "TypeError")
                            ELSE IF o.exit
                                 THEN Crash(Opening(closed, "short", now, name, keys),
                                            "exit", "unexpected header line")
                                 ELSE [Opening(closed, "short", now, name, keys)
                                         EXCEPT !.fs = o.fs, !.short_output_file = o.f]
         IN  IF opened.status # "running" THEN opened
             ELSE [opened EXCEPT
                     !.fs[opened.short_output_file.name].lines = Append(@, row),
                     !.written = Append(@, [window |-> "short",
                                            file |-> opened.short_output_file.name,
                                            start |-> s.short_interval_start_time,
                                            at |-> now,
                                            header_line |-> opened.short_output_file.header_line,
                                            row |-> row,
                                            samples |-> s.short_samples]),
                     !.short_interval_start_time =
                         NextIntervalStart(now, s.short_interval_start_time,
                                           short_interval),
                     !.short_interval_averaged_data = aux_data,
                     !.n_in_short_interval_average = 1,
                     !.short_samples = <<aux_data>>]
    ELSE IF s.short_interval_averaged_data = <<>>
         THEN [s EXCEPT !.short_interval_averaged_data = aux_data,
                        !.short_interval_n_in_average = 1,
                        !.short_samples = Append(@, aux_data)]
         ELSE IF s.short_interval_n_in_average = 0
              THEN Crash(s, "exception", "NameError")
              ELSE [s EXCEPT !.short_interval_averaged_data =
                                 UpdateAverage(@, aux_data,
                                               s.short_interval_n_in_average),
                             !.short_samples = Append(@, aux_data)]

\* One observation: the body of the loop from "now = datetime.datetime.now()".
Observe(s, now, aux_data, reread, short_reread) ==
    LET p == PrimaryInterval(StartTimes(s, now), now, aux_data, reread) IN
    IF p.status # "running" \/ ~p.log_short_interval THEN p
    ELSE ShortInterval(p, now, aux_data, short_reread)

\* [p.aux_word2aux_channel(word) for word in p.data]
RECURSIVE AuxData(_)
AuxData(data) ==
    IF data = <<>> THEN Return(<<>>)
    ELSE LET a == aux_word2aux_channel(Head(data))
             r == AuxData(Tail(data))
         IN  IF a.raised THEN a
             ELSE IF r.raised THEN r
             ELSE Return(a.value \o r.value)

\* One iteration of the loop of innovate2cvs.py on the packet read_packet
\* gave (or the exception it raised).
Isp2Loop(s, p, now, reread, short_reread) ==
    IF p.raised THEN Crash(s, "exception", p.error)
    ELSE IF ~is_sensor_data(p.header) THEN s
    ELSE LET aux_data == AuxData(p.data) IN
         IF aux_data.raised THEN Crash(s, "exception", aux_data.error)
         ELSE Observe(s, now, aux_data.value, reread, short_reread)

----------------------------------------------------------------------------
(* The inputs *)

\* Frames on the serial line: header word 0xB2xx is sensor data, 0xA2xx a
\* reply to a command; the low 7 bits are the number of data words.
SensorFrame1 == <<178, 129, 0, 10>>             \* one aux word, channel value 10
SensorFrame2 == <<178, 130, 0, 10, 1, 2>>       \* two aux words, 10 and 130
ReplyFrame == <<162, 128>>                      \* no data words
EmptySensorFrame == <<178, 128>>                \* sensor data, no data words
BadAuxFrame == <<178, 129, 128, 0>>             \* bit 15 of the aux word is set
HeaderInPayloadFrame == <<178, 129, 178, 129>>  \* the data word looks like a header
Frames == {SensorFrame1, SensorFrame2, ReplyFrame, EmptySensorFrame,
           BadAuxFrame, HeaderInPayloadFrame}

\* Line noise: bytes of which no two make a valid header.
NoiseBytes == {0, 10}
Noise == UNION {[1..n -> NoiseBytes] : n \in 0..MaxGarbage}

\* What the line delivers: noise, then up to two frames, cut anywhere (the
\* reads of the bytes after the cut time out).
Streams ==
    {SubSeq(g \o f1 \o f2, 1, k) :
        <<g, f1, f2, k>> \in {q \in Noise \X Frames \X (Frames \cup {<<>>}) \X (0..14) :
                                q[4] <= Len(q[1]) + Len(q[2]) + Len(q[3])}}

Times == 0..MaxTime
\* An observation at tick now lasts until the next tick: the second
\* datetime.now() of an iteration, read when a file is opened, returns now or
\* the tick after it (midnight may pass in between).
Rereads(now) == {now, now + 1}
Dates == 0..Date(MaxTime + 1)
FileNames == {get_output_filename(d, b) : d \in Dates, b \in BOOLEAN}
\* What the thermocouples read at one observation (corrected_temps).
Readings == {[i \in 1..NumSensors |-> IF i = 1 THEN 10 ELSE 30],
             [i \in 1..NumSensors |-> IF i = 1 THEN 30 ELSE 10]}
\* The files that may be there before the run starts.
OldNames == {f \in FileNames : f.date <= 1}

\* Files that are there before the run: an empty one, one with the header of
\* this program and a row, the same with whitespace around the header, one
\* with the header of a file with one channel less, and one with the header
\* and a line that is not a row.
OldRow == Join(Values("f3", 0, 0, [i \in 1..NumSensors |-> 10]), output_separator)
OldFiles(program) ==
    LET h == Join(Keys(program, NumSensors), output_separator) IN
    {Absent,
     [exists |-> TRUE, lines |-> <<>>],
     [exists |-> TRUE, lines |-> <<h, OldRow>>],
     [exists |-> TRUE, lines |-> <<<<Tok("space", 0)>> \o h \o <<Tok("tab", 0)>>, OldRow>>],
     [exists |-> TRUE, lines |-> <<Join(Keys(program, NumSensors - 1), output_separator)>>],
     [exists |-> TRUE, lines |-> <<h, <<Tok("text", 0)>>>>]}

----------------------------------------------------------------------------
(* The state machine *)

\* The state main() starts the loop in.
Start(program, log_short, name, short_name, fs) ==
    [program |-> program,
     log_short_interval |-> log_short,
     output_file_name |-> name,
     short_output_file_name |-> short_name,
     status |-> "running",
     error |-> "",
     current_date |-> Date(0),
     file_start_time |-> NoTime,
     short_file_start_time |-> NoTime,
     interval_start_time |-> NoTime,
     short_interval_start_time |-> NoTime,
     averaged_data |-> <<>>,
     short_interval_averaged_data |-> <<>>,
     n_in_average |-> 0,
     short_interval_n_in_average |-> 0,
     n_in_short_interval_average |-> 0,
     output_file |-> NoFile,
     short_output_file |-> NoFile,
     fs |-> fs,
     samples |-> <<>>,
     short_samples |-> <<>>,
     written |-> <<>>,
     opens |-> <<>>]

\* What an iteration read: the bytes the two reads of read_packet returned,
\* whether it raised, the frame it returned (header word, then data words),
\* and the time of the observation if one was taken.
Event(op, hdr, payload, raised, frame, now) ==
    [op |-> op, hdr |-> hdr, payload |-> payload, raised |-> raised,
     frame |-> frame, now |-> now]
NoEvent == Event("start", <<>>, <<>>, FALSE, <<>>, NoTime)

\* An InnovatePacket object: the module its class is of ("" before it is
\* constructed), _header (<<>>: None) and _data (<<>>: None or no words).
NoPacket == [module |-> "", _header |-> <<>>, _data |-> <<>>]
\* A call on it: the method or property, the argument, the outcome.
Call(op, arg, r) ==
    [op |-> op, arg |-> arg, raised |-> r.raised, error |-> r.error, value |-> r.value]
NoCall == Call("", <<>>, Return(<<>>))

Init ==
    /\ clock = NoTime
    /\ event = NoEvent
    /\ \/ /\ rx \in Streams
          /\ \E log_short \in BOOLEAN :
                run = Start("innovate2cvs", log_short, "", "",
                            [f \in FileNames |-> Absent])
       \/ /\ rx = <<>>
          /\ \E log_short \in BOOLEAN, name \in {"", "out.tsv"},
                short_name \in {"", "short.tsv"},
                f \in OldNames, old \in OldFiles("max2csv") :
                /\ short_name # "" => log_short
                /\ f.suffix = "short_interval.tsv" <=> log_short
                /\ old # Absent => (name = "" /\ short_name = "")
                /\ f.date > 0 => Len(old.lines) <= 1   \* rows only in a file of day 0
                /\ run = Start("max2csv", log_short, name, short_name,
                               [g \in FileNames |-> IF g = f THEN old ELSE Absent])
    /\ solo = [run EXCEPT !.log_short_interval = FALSE]
    /\ pkt = NoPacket
    /\ call = NoCall

\* One iteration of the loop of innovate2cvs.py: read_packet, then the body.
Isp2Iteration ==
    /\ run.program = "innovate2cvs"
    /\ run.status = "running"
    /\ \E now \in Times, reread \in 0..(MaxTime + 1), short_reread \in 0..(MaxTime + 1) :
          LET p == read_packet(rx)
              observed == ~p.raised /\ is_sensor_data(p.header)
          IN  /\ now > clock
              /\ reread \in Rereads(now)
              /\ short_reread \in Rereads(now)
              /\ reread <= short_reread
              /\ run' = Isp2Loop(run, p, now, reread, short_reread)
              /\ solo' = IF solo.status = "running"
                         THEN Isp2Loop(solo, p, now, reread, short_reread)
                         ELSE solo
              /\ rx' = p.rest
              /\ clock' = IF observed THEN now ELSE clock
              /\ event' = Event("read_packet", p.hdr, p.payload, p.raised,
                                 p.header \o p.data,
                                 IF observed THEN now ELSE NoTime)
              /\ UNCHANGED <<pkt, call>>

\* One iteration of the loop of max2csv.py: read the sensors, then the body.
MaxIteration ==
    /\ run.program = "max2csv"
    /\ run.status = "running"
    /\ \E now \in Times, corrected_temps \in Readings :
          \E reread \in Rereads(now) :
             \E short_reread \in Rereads(now) :
                /\ now > clock
                /\ reread <= short_reread
                /\ run' = Observe(run, now, corrected_temps, reread, short_reread)
                /\ solo' = IF solo.status = "running"
                           THEN Observe(solo, now, corrected_temps, reread, short_reread)
                           ELSE solo
                /\ clock' = now
                /\ event' = Event("sensors", <<>>, <<>>, FALSE, <<>>, now)
                /\ UNCHANGED <<rx, pkt, call>>

\* "except KeyboardInterrupt: break" in a logger that has not ended before:
\* the loop is left and main() returns.  Nothing closes the output files
\* there; the file objects are closed when main()'s locals are released.
KeyboardInterrupt(s) ==
    IF s.status # "running" THEN s
    ELSE [s EXCEPT !.status = "interrupted",
                   !.output_file.state = IF @ = "open" THEN "closed" ELSE @,
                   !.short_output_file.state = IF @ = "open" THEN "closed" ELSE @]

\* The interrupt arrives between two iterations, or in read_packet.
Interrupt ==
    /\ run.status = "running"
    /\ run' = KeyboardInterrupt(run)
    /\ solo' = KeyboardInterrupt(solo)
    /\ event' = Event("interrupt", <<>>, <<>>, FALSE, <<>>, NoTime)
    /\ UNCHANGED <<rx, clock, pkt, call>>

\* The interrupt arrives inside an iteration of max2csv.py: the exception is
\* raised where the iteration is, here after the start times are set
\* (primary_done = FALSE) or after the primary interval's code and before
\* the short interval's, and the rest of the iteration is not run.  Where
\* the part that was run is all there is to run (the start times are set
\* already, there is no short interval), the interrupt is that of Interrupt.
InterruptedIteration ==
    /\ run.program = "max2csv"
    /\ run.status = "running"
    /\ \E now \in Times, corrected_temps \in Readings, primary_done \in BOOLEAN :
          \E reread \in Rereads(now) :
             LET Part(s) == IF primary_done
                            THEN PrimaryInterval(StartTimes(s, now), now,
                                                 corrected_temps, reread)
                            ELSE StartTimes(s, now)
             IN  /\ now > clock
                 /\ IF primary_done THEN run.log_short_interval
                    ELSE run.interval_start_time = NoTime
                 /\ run' = KeyboardInterrupt(Part(run))
                 /\ solo' = IF solo.status = "running"
                            THEN KeyboardInterrupt(Part(solo)) ELSE solo
                 /\ clock' = now
                 /\ event' = Event("sensors", <<>>, <<>>, FALSE, <<>>, now)
                 /\ UNCHANGED <<rx, pkt, call>>

Next == Isp2Iteration \/ MaxIteration \/ Interrupt \/ InterruptedIteration

Spec == Init /\ [][Next]_vars

----------------------------------------------------------------------------
(* The packet classes on their own: a packet is constructed, its header is
   assigned, its packet_length is read and its data assigned; aux words are
   decoded. *)

Words == 0..65535                           \* the 16 bit words (">H")
WordBytes(w) == <<w \div 256, w % 256>>     \* struct.pack(">H", w)

\* The header arguments of the constructor: none, and the bytes of some
\* words (0xA280, 0xA2FF, 0xA380, 0xA3FF, 0xB281, 0x000A).
HeaderArguments ==
    {<<>>} \cup {WordBytes(w) : w \in {41600, 41727, 41856, 41983, 45697, 10}}

\* The byte strings assigned to data.
DataArguments == {SubSeq(<<0, 10, 1, 2, 0, 10, 1, 2>>, 1, k) : k \in 0..(2 * MaxWords + 2)}

PacketInit ==
    /\ run = Start("innovate2cvs", FALSE, "", "", [f \in FileNames |-> Absent])
    /\ solo = run
    /\ rx = <<>>
    /\ clock = NoTime
    /\ event = NoEvent
    /\ pkt = NoPacket
    /\ call = NoCall

\* packet.InnovatePacket(header), or InnovatePacket() when header is <<>>.
PacketNew ==
    /\ pkt.module = ""
    /\ call = NoCall
    /\ \E module \in {"isp2", "innovate"}, header \in HeaderArguments :
          LET r == IF module = "isp2" THEN InnovatePacket(header)
                   ELSE innovate_InnovatePacket(header = <<>>, header)
          IN  /\ pkt' = IF r.raised THEN pkt
                        ELSE [module |-> module, _header |-> r.value, _data |-> <<>>]
              /\ call' = Call("__init__", header, r)
    /\ UNCHANGED <<run, solo, rx, clock, event>>

\* p.header = struct.pack(">H", w) on a packet that has no header yet.
PacketSetHeader ==
    /\ pkt.module # ""
    /\ pkt._header = <<>>
    /\ call.op = "__init__"
    /\ \E w \in Words :
          LET r == IF pkt.module = "isp2" THEN header_setter(WordBytes(w))
                   ELSE innovate_header_setter(FALSE, WordBytes(w))
          IN  /\ pkt' = IF r.raised THEN pkt ELSE [pkt EXCEPT !._header = r.value]
              /\ call' = Call("header", <<w>>, r)
    /\ UNCHANGED <<run, solo, rx, clock, event>>

\* p.packet_length on a packet whose header was assigned.
PacketLength ==
    /\ pkt.module # ""
    /\ pkt._header # <<>>
    /\ call.op \in {"__init__", "header"}
    /\ call' = Call("packet_length", pkt._header,
                    IF pkt.module = "isp2" THEN Return(packet_length(pkt._header))
                    ELSE innovate_packet_length(pkt._header))
    /\ UNCHANGED <<run, solo, rx, clock, event, pkt>>

\* p.data = bytes, as read_packet does after reading p.packet_length.
PacketSetData ==
    /\ call.op = "packet_length"
    /\ ~call.raised
    /\ call.value[1] <= MaxWords
    /\ \E data \in DataArguments :
          LET r == IF pkt.module = "isp2" THEN data_setter(pkt._header, FALSE, data)
                   ELSE innovate_data_setter(FALSE, data)
          IN  /\ pkt' = IF r.raised THEN pkt ELSE [pkt EXCEPT !._data = r.value]
              /\ call' = Call("data", data, r)
    /\ UNCHANGED <<run, solo, rx, clock, event>>

\* p.aux_word2aux_channel(w), a method of the class of isp2/packet.py only.
PacketAuxWord ==
    /\ pkt.module = "isp2"
    /\ call.op = "__init__"
    /\ \E w \in Words : call' = Call("aux_word2aux_channel", <<w>>,
                                       aux_word2aux_channel(w))
    /\ UNCHANGED <<run, solo, rx, clock, event, pkt>>

PacketNext ==
    PacketNew \/ PacketSetHeader \/ PacketLength \/ PacketSetData \/ PacketAuxWord

PacketSpec == PacketInit /\ [][PacketNext]_vars

----------------------------------------------------------------------------
(* Properties *)

RECURSIVE ChannelSum(_, _)
ChannelSum(samples, c) ==
    IF samples = <<>> THEN 0 ELSE Head(samples)[c] + ChannelSum(Tail(samples), c)

\* averaged is, channel by channel, the arithmetic mean of the samples.
IsMean(averaged, samples) ==
    samples # <<>> =>
        /\ Len(averaged) = Len(samples[1])
        /\ \A c \in 1..Len(averaged) :
              averaged[c] * Len(samples) = ChannelSum(samples, c)

\* The number of columns of a line under the separator.
Columns(line) == Cardinality({i \in 1..Len(line) : line[i] = output_separator}) + 1

\* The channel values of a row, which follow the timestamp and the hours.
RowChannels(row) == [c \in 1..(Columns(row) - 2) |-> row[2 * (c + 2) - 1][2]]

IsPrimary(w) == w.window = "primary"
StartsWith(line, prefix) ==
    Len(line) >= Len(prefix) /\ SubSeq(line, 1, Len(prefix)) = prefix

\* The bytes on the line before the latest read_packet.
LineBefore == event.hdr \o event.payload \o rx

\* C1: after every observation that stays inside the window, the running
\* mean of each channel is the arithmetic mean of the observations of the
\* window, for the primary and for the short window.
C1_RunningMeanIsArithmeticMean ==
    /\ IsMean(run.averaged_data, run.samples)
    /\ run.log_short_interval =>
          IsMean(run.short_interval_averaged_data, run.short_samples)

\* C2: an observation that crosses the boundary of a window writes exactly
\* one row for that window, whose channel values are the mean of the
\* observations before it, and seeds the next window with its own values
\* and a count of 1.
C2_BoundaryFlush ==
    /\ \A i \in DOMAIN run.written :
          /\ IsMean(RowChannels(run.written[i].row), run.written[i].samples)
          /\ \A j \in DOMAIN run.written :
                (run.written[j].window = run.written[i].window
                 /\ run.written[j].at = run.written[i].at) => j = i
    /\ \A i \in DOMAIN run.written :
          (run.written[i].window = "primary" /\ run.written[i].at = clock
           /\ run.status = "running")
          => /\ Len(run.samples) = 1
             /\ run.averaged_data = run.samples[1]
             /\ run.n_in_average = 1

\* C3: for each window, a row flushed on a date other than that of the
\* window's open file goes to the file named for the date of the flush (the
\* date read when the file is opened), and that file begins with the header.
C3_FlushRollsOverPerWindow ==
    \A i \in DOMAIN run.written :
        LET w == run.written[i] IN
        /\ w.file.date \in {Date(t) : t \in Rereads(w.at)}
        /\ run.fs[w.file].lines # <<>>
        /\ Strip(run.fs[w.file].lines[1]) = w.header_line

\* The i-th call of get_output_file ended the run: the file is as it was, no
\* row of that flush was written anywhere, and nothing was opened after it.
Aborted(i) ==
    /\ run.status = "exit"
    /\ i = Len(run.opens)
    /\ run.fs[run.opens[i].file] = run.opens[i].before
    /\ \A j \in DOMAIN run.written :
          ~(run.written[j].window = run.opens[i].window
            /\ run.written[j].at = run.opens[i].at)

\* C4 as stated: a file that exists, is not empty and whose first line is not
\* the expected header makes the opening fail and abort the run, the file
\* unchanged, no row written, nothing retried.
C4_FirstLineDiffers_Aborts ==
    \A i \in DOMAIN run.opens :
        LET o == run.opens[i] IN
        (o.before.exists /\ o.before.lines # <<>>
         /\ o.before.lines[1] # o.header_line) => Aborted(i)

\* C4 (amended): a file that exists, is not empty and whose first line,
\* stripped of leading and trailing whitespace, is not the expected header
\* makes the opening fail and abort the run, the file unchanged, no row
\* written, nothing retried.
C4_StrippedFirstLineDiffers_Aborts ==
    \A i \in DOMAIN run.opens :
        LET o == run.opens[i] IN
        (o.before.exists /\ o.before.lines # <<>>
         /\ Strip(o.before.lines[1]) # o.header_line) => Aborted(i)

C4_Witness ==
    \E i \in DOMAIN run.opens :
        LET o == run.opens[i] IN
        /\ o.before.exists /\ o.before.lines # <<>>
        /\ Strip(o.before.lines[1]) # o.header_line
        /\ run.status = "exit"

\* C5: reading two bytes that fail the marker bit check of a header does not
\* end the loop.
C5_InvalidHeaderNotFatal ==
    (event.op = "read_packet" /\ Len(event.hdr) = 2
     /\ BitAnd(event.hdr[1] * 256 + event.hdr[2], HEADER_MASK) # HEADER_MASK)
    => run.status = "running"

\* C6: on a line that carries bytes without a valid header and then a
\* well-formed frame, read_packet returns exactly that frame.
C6_ResyncReturnsFrame ==
    \A g \in Noise \ {<<>>}, f \in Frames :
        (event.op = "read_packet" /\ LineBefore = g \o f)
        => /\ ~event.raised
           /\ event.frame = _to_words(f).value

\* C7: a read of the header that times out (fewer than 2 bytes) leaves the
\* loop running.
C7_TimeoutRecoverable ==
    (event.op = "read_packet" /\ Len(event.hdr) < 2) => run.status = "running"

\* C8: a sensor data frame with an aux word whose marker bits are not clear
\* does not end the loop.
C8_BadAuxWordNotFatal ==
    (event.op = "read_packet" /\ StartsWith(LineBefore, BadAuxFrame))
    => run.status = "running"

\* C9: the rows the primary window writes, and the files it writes them to,
\* are the same with short interval logging as without it.
C9_PrimaryIndependentOfShort ==
    SelectSeq(run.written, IsPrimary) = solo.written

C11_ExistingFileNeverTruncated ==
    \A k \in DOMAIN run.opens :
        LET o == run.opens[k]
            now_lines == run.fs[o.file].lines
        IN  (o.before.exists /\ o.before.lines # <<>>)
            => /\ StartsWith(now_lines, o.before.lines)
               /\ \A n \in (Len(o.before.lines) + 1)..Len(now_lines) :
                     now_lines[n] # o.header_line
               /\ Strip(o.before.lines[1]) = o.header_line
                  => ~(k = Len(run.opens) /\ run.status = "exit")

\* A file that was there with the header and a row, appended to.
C11_Witness ==
    \E k \in DOMAIN run.opens :
        LET o == run.opens[k] IN
        /\ o.before.exists /\ Len(o.before.lines) > 1
        /\ Strip(o.before.lines[1]) = o.header_line
        /\ Len(run.fs[o.file].lines) > Len(o.before.lines)

\* A line is a row under a header: it starts with a time of day and has the
\* columns of the header.
IsRow(line, header_line) ==
    /\ line # <<>>
    /\ line[1][1] = "hms"
    /\ Columns(line) = Columns(header_line)

\* C12 as stated: a file that is absent or empty is created with the header
\* line first, and every file a row was written to has the header as its
\* first line and rows as all its later lines.
C12_WrittenFilesAreHeaderThenRows ==
    /\ \A k \in DOMAIN run.opens :
          (~run.opens[k].before.exists \/ run.opens[k].before.lines = <<>>)
          => /\ run.fs[run.opens[k].file].lines # <<>>
             /\ run.fs[run.opens[k].file].lines[1] = run.opens[k].header_line
    /\ \A i \in DOMAIN run.written :
          LET lines == run.fs[run.written[i].file].lines IN
          /\ lines[1] = run.written[i].header_line
          /\ \A n \in 2..Len(lines) : IsRow(lines[n], run.written[i].header_line)

\* C12 (amended): a file that is absent or empty is created with the header
\* line first, so every file the writer created has the header as its first
\* line and, after it, exactly the rows the writer wrote to it; a file that
\* was there and is written to has the header as its first line once the
\* whitespace around that line is stripped.
C12_CreatedFilesAreHeaderThenRows ==
    /\ \A k \in DOMAIN run.opens :
          LET o == run.opens[k]
              lines == run.fs[o.file].lines
          IN  (~o.before.exists \/ o.before.lines = <<>>)
              => /\ lines # <<>>
                 /\ lines[1] = o.header_line
                 /\ \A n \in 2..Len(lines) :
                       /\ IsRow(lines[n], o.header_line)
                       /\ \E j \in DOMAIN run.written :
                             /\ run.written[j].file = o.file
                             /\ run.written[j].row = lines[n]
    /\ \A i \in DOMAIN run.written :
          LET lines == run.fs[run.written[i].file].lines IN
          /\ lines # <<>>
          /\ Strip(lines[1]) = run.written[i].header_line

\* A file the writer created and wrote two rows to.
C12_Witness ==
    \E k \in DOMAIN run.opens :
        /\ ~run.opens[k].before.exists
        /\ Len(run.fs[run.opens[k].file].lines) >= 3

\* C13: reading a valid frame whose header has the sensor data bit clear (a
\* reply to a command) raises no error: the loop goes on and the start
\* times, the running means, the file start times and the output files are
\* as they were.
C13_ReplyFrameDropped ==
    [][(/\ run.program = "innovate2cvs"
        /\ run.status = "running"
        /\ StartsWith(rx, ReplyFrame)
        /\ event'.op = "read_packet")
       => run' = run]_vars

\* C14: the rows a window writes carry the start time of the window they
\* close (its time of day, and the hours since the start of the file), the
\* start times strictly increase from one row of the window to the next, and
\* the rows are in their file in that order.
C14_RowsInTimeOrder ==
    \A i \in DOMAIN run.written :
        LET w == run.written[i]
            file_start == IF w.window = "primary" THEN run.file_start_time
                          ELSE run.short_file_start_time
        IN  /\ w.row[1] = Tok("hms", TimeOfDay(w.start))
            /\ w.row[3][2] = w.start - file_start
            /\ w.start < w.at
            /\ \A j \in DOMAIN run.written :
                  (i < j /\ run.written[j].window = w.window)
                  => /\ w.start < run.written[j].start
                     /\ w.at <= run.written[j].start
                     /\ run.written[j].file = w.file
                        => \E m, n \in DOMAIN run.fs[w.file].lines :
                              /\ m < n
                              /\ run.fs[w.file].lines[m] = w.row
                              /\ run.fs[w.file].lines[n] = run.written[j].row

\* Two rows of one window in one file, the second of a window that did not
\* start with the file.
C14_Witness ==
    \E i, j \in DOMAIN run.written :
        /\ i < j
        /\ run.written[i].window = run.written[j].window
        /\ run.written[i].file = run.written[j].file
        /\ TimeOfDay(run.written[j].start) # TimeOfDay(run.written[i].start)

\* The last observation a window has taken in.
Last(samples) == samples[Len(samples)]

\* C15: a logger that an interrupt has ended has completed the iteration it
\* was in (every observation it took has reached both windows), its output
\* files are closed, and every row it wrote is in its file.
C15_InterruptCompletesIteration ==
    run.status = "interrupted"
    => /\ run.output_file.state # "open"
       /\ run.short_output_file.state # "open"
       /\ \A i \in DOMAIN run.written :
             \E n \in DOMAIN run.fs[run.written[i].file].lines :
                run.fs[run.written[i].file].lines[n] = run.written[i].row
       /\ run.interval_start_time # NoTime => run.samples # <<>>
       /\ (run.log_short_interval /\ run.samples # <<>>)
          => /\ run.short_samples # <<>>
             /\ Last(run.short_samples) = Last(run.samples)

\* Bit k of the word w is set.
Bit(w, k) == (w \div (2 ^ k)) % 2 = 1

RECURSIVE BitOr(_, _)
BitOr(a, b) ==
    IF a = 0 THEN b
    ELSE IF b = 0 THEN a
    ELSE (IF a % 2 = 1 \/ b % 2 = 1 THEN 1 ELSE 0) + 2 * BitOr(a \div 2, b \div 2)

\* C16: for every valid header word h, packet_length is (h & 0x7F), plus 128
\* when bit 8 of h is set, a value in 0..255; the headers that encode 0, 127,
\* 128 and 255 words give these lengths.
C16_PacketLengthFromHeader ==
    (call.op = "packet_length" /\ call.arg # <<>>)
    => LET h == call.arg[1] IN
       /\ ~call.raised
       /\ call.value = <<(h % 128) + (IF Bit(h, 8) THEN 128 ELSE 0)>>
       /\ call.value[1] \in 0..255
       /\ h = 41600 => call.value = <<0>>
       /\ h = 41727 => call.value = <<127>>
       /\ h = 41856 => call.value = <<128>>
       /\ h = 41983 => call.value = <<255>>

\* C17: a 16 bit word is accepted as a header if and only if its bits 15,
\* 13, 9 and 7 are all set; any other word is rejected as an invalid header
\* and the packet does not get it as its header.
C17_HeaderValidIffMarkerBits ==
    /\ call.op = "header"
       => LET w == call.arg[1] IN
          /\ ~call.raised <=> (Bit(w, 15) /\ Bit(w, 13) /\ Bit(w, 9) /\ Bit(w, 7))
          /\ ~call.raised => pkt._header = <<w>>
          /\ call.raised => (call.error = "Invalid header" /\ pkt._header = <<>>)
    /\ pkt._header # <<>>
       => (Bit(pkt._header[1], 15) /\ Bit(pkt._header[1], 13)
           /\ Bit(pkt._header[1], 9) /\ Bit(pkt._header[1], 7))

\* The header 0xB281 accepted.
C17_Witness ==
    call.op = "header" /\ call.arg = <<45697>> /\ pkt._header = <<45697>>

\* C18: for every 16 bit word w, decoding w as an aux word fails with the
\* error of a word that is not an aux channel word when w & 0xC080 is not 0,
\* and else gives (w & 0x007F) + ((w & 0x3F00) >> 1); 0x0102 gives 130.
C18_AuxWordDecoding ==
    call.op = "aux_word2aux_channel"
    => LET w == call.arg[1] IN
       /\ call.raised <=> (Bit(w, 15) \/ Bit(w, 14) \/ Bit(w, 7))
       /\ call.raised => call.error = "Not an aux channel word"
       /\ ~call.raised => call.value = <<(w % 128) + (((w \div 256) % 64) * 256) \div 2>>
       /\ w = 258 => call.value = <<130>>

\* 0x0102 decoded.
C18_Witness ==
    call.op = "aux_word2aux_channel" /\ call.arg = <<258>> /\ call.value = <<130>>

\* C19 as stated: for an aux word w with its marker bits clear, the value is
\* bits 6..0 of w OR-ed with the field of bits 13..8 shifted left by one.
C19_AuxValueFieldShiftedLeftByOne ==
    (call.op = "aux_word2aux_channel" /\ ~call.raised)
    => LET w == call.arg[1] IN
       call.value = <<BitOr(w % 128, ((w \div 256) % 64) * 2)>>

\* C19 (amended): for an aux word w with its marker bits clear, the value is
\* bits 6..0 of w OR-ed with the field of bits 13..8 shifted left by seven
\* (bits 13..8 of w, in place, shifted right by one).
C19_AuxValueFieldShiftedLeftBySeven ==
    (call.op = "aux_word2aux_channel" /\ ~call.raised)
    => LET w == call.arg[1] IN
       call.value = <<BitOr(w % 128, ((w \div 256) % 64) * (2 ^ 7))>>

\* 0x3F7F, all thirteen data bits set, decoded to 0x1FFF.
C19_Witness ==
    call.op = "aux_word2aux_channel" /\ call.arg = <<16255>> /\ call.value = <<8191>>

\* C21: on a line that carries well-formed frames one after the other,
\* read_packet returns the first frame and leaves the next on the line, also
\* when the data of the frame holds two bytes with the marker bits of a
\* header: the bytes of the data are not taken for a header.
C21_FramesReturnedInOrder ==
    \A f1 \in Frames, f2 \in Frames \cup {<<>>} :
        (event.op = "read_packet" /\ LineBefore = f1 \o f2)
        => /\ ~event.raised
           /\ event.frame = _to_words(f1).value
           /\ rx = f2

\* The rows of a window among the rows written.
RowsOf(written, window) == SelectSeq(written, LAMBDA w : w.window = window)

\* C22: an observation flushes a window if and only if the time since the
\* start of the window is strictly greater than the width of the window; an
\* observation at exactly the width is averaged into the window and writes
\* no row.
C22_FlushIffStrictlyOver ==
    [][(/\ run.status = "running"
        /\ run'.status = "running"
        /\ event'.op = "sensors"
        /\ run.interval_start_time # NoTime)
       => LET now == clock'
              elapsed == now - run.interval_start_time
              short_elapsed == now - run.short_interval_start_time
              rows == Len(RowsOf(run'.written, "primary"))
                      - Len(RowsOf(run.written, "primary"))
              short_rows == Len(RowsOf(run'.written, "short"))
                            - Len(RowsOf(run.written, "short"))
          IN  /\ rows = (IF elapsed > interval THEN 1 ELSE 0)
              /\ elapsed <= interval
                 => /\ run'.samples = Append(run.samples, Last(run'.samples))
                    /\ run'.interval_start_time = run.interval_start_time
              /\ run.log_short_interval
                 => /\ short_rows = (IF short_elapsed > short_interval THEN 1 ELSE 0)
                    /\ short_elapsed <= short_interval
                       => /\ run'.short_samples =
                                Append(run.short_samples, Last(run'.short_samples))
                          /\ run'.short_interval_start_time =
                                run.short_interval_start_time]_vars

\* An observation at exactly the width of the primary window, taken into the
\* window: no row yet.
C22_Witness ==
    /\ run.status = "running"
    /\ event.op = "sensors"
    /\ clock - run.interval_start_time = interval
    /\ Len(run.samples) >= 2
    /\ RowsOf(run.written, "primary") = <<>>

\* The first row the run wrote to the file of the i-th row.
FirstRowOfFile(i) ==
    CHOOSE j \in DOMAIN run.written :
        /\ run.written[j].file = run.written[i].file
        /\ \A k \in DOMAIN run.written :
              run.written[k].file = run.written[i].file => j <= k

\* C23: the hours column of a row is the time from the start of the file the
\* row is written to (the window start of the first row in it) to the
\* window start of the row; the first row of a file opened by a date
\* rollover has the hours 0, not the time since the start of the run.
C23_HoursSinceStartOfFile ==
    \A i \in DOMAIN run.written :
        run.written[i].row[3][2]
            = run.written[i].start - run.written[FirstRowOfFile(i)].start

\* The k-th call of get_output_file returned a file (it did not end the run).
Accepted(k) == ~(k = Len(run.opens) /\ run.status = "exit")

\* C24 as stated: a file that exists and is not empty is accepted if and only
\* if its first line is, character for character, the expected header; a
\* first line that differs by whitespace or separators at its ends only is
\* a mismatch.
C24_AcceptedIffFirstLineVerbatim ==
    \A k \in DOMAIN run.opens :
        LET o == run.opens[k] IN
        (o.before.exists /\ o.before.lines # <<>>)
        => (Accepted(k) <=> o.before.lines[1] = o.header_line)

\* C24 (amended): a file that exists and is not empty is accepted if and
\* only if its first line, stripped of leading and trailing whitespace, is
\* the expected header; a first line that differs from the header by such
\* whitespace only is a match.
C24_AcceptedIffFirstLineStripped ==
    \A k \in DOMAIN run.opens :
        LET o == run.opens[k] IN
        (o.before.exists /\ o.before.lines # <<>>)
        => (Accepted(k) <=> Strip(o.before.lines[1]) = o.header_line)

\* A file whose first line is the header with whitespace around it, accepted
\* and written to.
C24_Witness ==
    \E k \in DOMAIN run.opens :
        LET o == run.opens[k] IN
        /\ o.before.exists /\ o.before.lines # <<>>
        /\ o.before.lines[1] # o.header_line
        /\ Strip(o.before.lines[1]) = o.header_line
        /\ Accepted(k)
        /\ Len(run.fs[o.file].lines) > Len(o.before.lines)

\* C25: with an output file name given by the caller, the observation that
\* crosses the boundary of the window opens that file and writes the row,
\* without error, for the primary and for the short window.
C25_NamedFileFlushCompletes ==
    [][(/\ run.status = "running"
        /\ event'.op = "sensors"
        /\ run'.status # "interrupted"
        /\ run.interval_start_time # NoTime)
       => /\ (/\ run.output_file_name # ""
              /\ clock' - run.interval_start_time > interval)
             => /\ run'.status = "running"
                /\ Len(RowsOf(run'.written, "primary"))
                      = Len(RowsOf(run.written, "primary")) + 1
          /\ (/\ run.log_short_interval
              /\ run.short_output_file_name # ""
              /\ clock' - run.short_interval_start_time > short_interval)
             => /\ run'.status = "running"
                /\ Len(RowsOf(run'.written, "short"))
                      = Len(RowsOf(run.written, "short")) + 1]_vars

\* C26: with the primary window only and file names derived from the date,
\* every row is in the file named for the date of the observation that
\* flushed it (not for the date of the start of its window).
C26_RowInFileOfFlushDate ==
    (~run.log_short_interval /\ run.output_file_name = "")
    => \A i \in DOMAIN run.written :
          run.written[i].file = get_output_filename(Date(run.written[i].at), FALSE)

\* C27: when an observation comes more than two widths of a window after the
\* observation before it, it writes exactly one row of that window (the row
\* of the window that was open, none for the empty windows in between), and
\* the next window starts at the time of the observation itself, not at the
\* old start plus a multiple of the width.
C27_OneRowAfterLongGap ==
    [][(/\ run.status = "running"
        /\ event'.op = "sensors"
        /\ clock # NoTime)
       => LET now == clock'
              gap == now - clock
              old == RowsOf(run.written, "primary")
              new == RowsOf(run'.written, "primary")
              short_old == RowsOf(run.written, "short")
              short_new == RowsOf(run'.written, "short")
          IN  /\ gap > 2 * interval
                 => /\ Len(new) <= Len(old) + 1
                    /\ run'.status = "running"
                       => /\ Len(new) = Len(old) + 1
                          /\ Last(new).start = run.interval_start_time
                          /\ Last(new).at = now
                          /\ run'.interval_start_time = now
                          /\ Len(run'.samples) = 1
              /\ (gap > 2 * short_interval /\ run.log_short_interval)
                 => /\ Len(short_new) <= Len(short_old) + 1
                    /\ run'.status = "running"
                       => /\ Len(short_new) = Len(short_old) + 1
                          /\ Last(short_new).start = run.short_interval_start_time
                          /\ Last(short_new).at = now
                          /\ run'.short_interval_start_time = now
                          /\ Len(run'.short_samples) = 1]_vars

\* An observation more than two widths of the primary window after the only
\* observation of the window has written the row of that window and started
\* the next window at its own time.
C27_Witness ==
    /\ run.status = "running"
    /\ event.op = "sensors"
    /\ RowsOf(run.written, "primary") # <<>>
    /\ LET w == Last(RowsOf(run.written, "primary"))
       IN  /\ w.at = clock
           /\ Len(w.samples) = 1
           /\ w.at - w.start > 2 * interval
           /\ run.interval_start_time = clock

====
